---- MODULE Spec2Model ----
(***************************************************************************)
(* Function type registry of golem-rib (type_registry.rs): the registry    *)
(* keys and values, the builder from_export_metadata with its recursive    *)
(* walk update_registry, and the query API lookup / get / get_variants /   *)
(* argument_types.                                                         *)
(***************************************************************************)
EXTENDS Integers, Sequences, FiniteSets, TLC

\* ------------------------------------------------------------------ bounds

\* longest export list handed to from_export_metadata
MaxExports == 2

\* number of times from_export_metadata is run on the same export metadata
MaxBuilds == 2

\* number of readers that query the returned registries at the same time
NumReaders == 2

\* ------------------------------------------------------- Option<T> values

None == << >>

Some(x) == << x >>

IsSome(o) == Len(o) > 0

Unwrap(o) == o[1]

Range(s) == { s[n] : n \in 1..Len(s) }

\* ------------------------------------------------------------ AnalysedType

AnalysedType_S32 == [kind |-> "S32"]

AnalysedType_F64 == [kind |-> "F64"]

AnalysedType_Str == [kind |-> "Str"]

AnalysedType_Handle == [kind |-> "Handle"]

AnalysedType_Flags(names) == [kind |-> "Flags", names |-> names]

\* TypeVariant { cases: Vec<NameOptionTypePair> }
TypeVariant(cases) == [cases |-> cases]

NameOptionTypePair(name, typ) == [name |-> name, typ |-> typ]

NameTypePair(name, typ) == [name |-> name, typ |-> typ]

AnalysedType_Variant(variant) == [kind |-> "Variant", cases |-> variant.cases]

AnalysedType_Enum(cases) == [kind |-> "Enum", cases |-> cases]

AnalysedType_Tuple(items) == [kind |-> "Tuple", items |-> items]

AnalysedType_List(inner) == [kind |-> "List", inner |-> inner]

AnalysedType_Record(fields) == [kind |-> "Record", fields |-> fields]

AnalysedType_Option(inner) == [kind |-> "Option", inner |-> inner]

AnalysedType_Result(ok, err) == [kind |-> "Result", ok |-> ok, err |-> err]

\* ------------------------------------------------------------- RegistryKey

RegistryKey_FunctionName(name) == [tag |-> "FunctionName", name |-> name]

RegistryKey_FunctionNameWithInterface(interface_name, function_name) ==
    [tag |-> "FunctionNameWithInterface",
     interface_name |-> interface_name,
     function_name |-> function_name]

\* ----------------------------------------------------------- RegistryValue

RegistryValue_Value(ty) == [tag |-> "Value", typ |-> ty]

RegistryValue_Variant(parameter_types, variant_type) ==
    [tag |-> "Variant",
     parameter_types |-> parameter_types,
     variant_type |-> variant_type]

RegistryValue_Function(parameter_types, return_types) ==
    [tag |-> "Function",
     parameter_types |-> parameter_types,
     return_types |-> return_types]

\* mutant: a Function answers with its return types
argument_types_returns(self) ==
    CASE self.tag = "Function" -> self.return_types
      [] self.tag = "Variant" -> self.parameter_types
      [] self.tag = "Value" -> << >>

argument_types(self) ==
    CASE self.tag = "Function" -> self.parameter_types
      [] self.tag = "Variant" -> self.parameter_types
      [] self.tag = "Value" -> << >>

\* ---------------------------------------------------------------- HashMap

\* HashMap::new()
empty == << >>

\* the function name a key carries
KeyName(key) ==
    IF key.tag = "FunctionName" THEN key.name ELSE key.function_name

\* mutant: keys are compared by their function name alone
Insert_by_name(map, key, value) ==
    LET same == { k \in DOMAIN map : KeyName(k) = KeyName(key) }
    IN IF same = {}
       THEN [k \in (DOMAIN map) \cup {key} |-> IF k = key THEN value ELSE map[k]]
       ELSE [k \in DOMAIN map |-> IF k \in same THEN value ELSE map[k]]

\* mutant: the entry of a key already present is kept (entry().or_insert())
Insert_keep_first(map, key, value) ==
    [k \in (DOMAIN map) \cup {key} |-> IF k \in DOMAIN map THEN map[k] ELSE value]

\* HashMap::insert: a later insertion under an equal key replaces the entry
Insert(map, key, value) ==
    [k \in (DOMAIN map) \cup {key} |-> IF k = key THEN value ELSE map[k]]

\* mutant: a key matches any entry of the same function name
lookup_by_name(self, registry_key) ==
    LET same == { k \in DOMAIN self : KeyName(k) = KeyName(registry_key) }
    IN IF same # {} THEN Some(self[CHOOSE k \in same : TRUE]) ELSE None

\* HashMap::get(..).cloned()
lookup(self, registry_key) ==
    IF registry_key \in DOMAIN self THEN Some(self[registry_key]) ELSE None

\* ------------------------------------------------- internal::update_registry

\* the shapes update_registry matches with an empty arm
LeafKinds ==
    {"Flags", "Str", "Chr", "F64", "F32", "U64", "S64", "U32", "S32",
     "U16", "S16", "U8", "S8", "Bool", "Handle"}

RECURSIVE update_registry(_, _)
RECURSIVE update_registry_each(_, _)
RECURSIVE update_registry_fields(_, _)
RECURSIVE insert_variant_cases(_, _, _)
RECURSIVE insert_enum_cases(_, _, _)

RECURSIVE insert_variant_cases_always_variant(_, _, _)
\* mutant: a case without payload is stored as a Variant with no parameter
insert_variant_cases_always_variant(ty, cases, registry) ==
    IF cases = << >> THEN registry
    ELSE LET name_type_pair == Head(cases)
             value == RegistryValue_Variant(name_type_pair.typ, TypeVariant(ty.cases))
         IN insert_variant_cases_always_variant(ty, Tail(cases),
                Insert(registry, RegistryKey_FunctionName(name_type_pair.name), value))

RECURSIVE insert_variant_cases_merge(_, _, _)
\* mutant: a case whose name already holds a Variant entry is merged into it
insert_variant_cases_merge(ty, cases, registry) ==
    IF cases = << >> THEN registry
    ELSE LET name_type_pair == Head(cases)
             key == RegistryKey_FunctionName(name_type_pair.name)
             earlier == IF key \in DOMAIN registry /\ registry[key].tag = "Variant"
                        THEN registry[key].parameter_types
                        ELSE << >>
             value == IF IsSome(name_type_pair.typ)
                      THEN RegistryValue_Variant(
                                earlier \o << Unwrap(name_type_pair.typ) >>,
                                TypeVariant(ty.cases))
                      ELSE RegistryValue_Value(ty)
         IN insert_variant_cases_merge(ty, Tail(cases), Insert(registry, key, value))

RECURSIVE insert_variant_cases_descend(_, _, _)
\* mutant: the payload type of a case is expanded too
insert_variant_cases_descend(ty, cases, registry) ==
    IF cases = << >> THEN registry
    ELSE LET name_type_pair == Head(cases)
             value == IF IsSome(name_type_pair.typ)
                      THEN RegistryValue_Variant(<< Unwrap(name_type_pair.typ) >>,
                                                 TypeVariant(ty.cases))
                      ELSE RegistryValue_Value(ty)
             inserted == Insert(registry,
                                RegistryKey_FunctionName(name_type_pair.name), value)
         IN insert_variant_cases_descend(ty, Tail(cases),
                IF IsSome(name_type_pair.typ)
                THEN update_registry(Unwrap(name_type_pair.typ), inserted)
                ELSE inserted)

RECURSIVE insert_variant_cases_own_case(_, _, _)
\* mutant: a Variant entry holds a variant type of its own case alone
insert_variant_cases_own_case(ty, cases, registry) ==
    IF cases = << >> THEN registry
    ELSE LET name_type_pair == Head(cases)
             value == IF IsSome(name_type_pair.typ)
                      THEN RegistryValue_Variant(<< Unwrap(name_type_pair.typ) >>,
                                                 TypeVariant(<< name_type_pair >>))
                      ELSE RegistryValue_Value(ty)
         IN insert_variant_cases_own_case(ty, Tail(cases),
                Insert(registry, RegistryKey_FunctionName(name_type_pair.name), value))

RECURSIVE insert_variant_cases_value_of_payload(_, _, _)
\* mutant: a case with a payload is stored as the Value of its payload type
insert_variant_cases_value_of_payload(ty, cases, registry) ==
    IF cases = << >> THEN registry
    ELSE LET name_type_pair == Head(cases)
             value == IF IsSome(name_type_pair.typ)
                      THEN RegistryValue_Value(Unwrap(name_type_pair.typ))
                      ELSE RegistryValue_Value(ty)
         IN insert_variant_cases_value_of_payload(ty, Tail(cases),
                Insert(registry, RegistryKey_FunctionName(name_type_pair.name), value))

\* for name_type_pair in &type_variant.cases { registry.insert(..) }
insert_variant_cases(ty, cases, registry) ==
    IF cases = << >> THEN registry
    ELSE LET name_type_pair == Head(cases)
             value == IF IsSome(name_type_pair.typ)
                      THEN RegistryValue_Variant(<< Unwrap(name_type_pair.typ) >>,
                                                 TypeVariant(ty.cases))
                      ELSE RegistryValue_Value(ty)
         IN insert_variant_cases(ty, Tail(cases),
                Insert(registry, RegistryKey_FunctionName(name_type_pair.name), value))

RECURSIVE insert_enum_cases_variant(_, _, _)
\* mutant: an enum case is stored as a Variant entry without parameters
insert_enum_cases_variant(ty, cases, registry) ==
    IF cases = << >> THEN registry
    ELSE insert_enum_cases_variant(ty, Tail(cases),
            Insert(registry, RegistryKey_FunctionName(Head(cases)),
                   RegistryValue_Variant(<< >>, TypeVariant(
                       [n \in 1..Len(ty.cases) |->
                           NameOptionTypePair(ty.cases[n], None)]))))

\* for name_type_pair in type_enum.cases { registry.insert(..) }
insert_enum_cases(ty, cases, registry) ==
    IF cases = << >> THEN registry
    ELSE insert_enum_cases(ty, Tail(cases),
            Insert(registry, RegistryKey_FunctionName(Head(cases)),
                   RegistryValue_Value(ty)))

\* for element in tuple.items { update_registry(&element, registry) }
update_registry_each(items, registry) ==
    IF items = << >> THEN registry
    ELSE update_registry_each(Tail(items), update_registry(Head(items), registry))

\* mutant: only the first field of a record is walked
update_registry_fields_first(fields, registry) ==
    IF fields = << >> THEN registry
    ELSE update_registry(Head(fields).typ, registry)

RECURSIVE update_registry_fields_reversed(_, _)
\* mutant: the fields of a record are walked from the last to the first
update_registry_fields_reversed(fields, registry) ==
    IF fields = << >> THEN registry
    ELSE update_registry(Head(fields).typ,
            update_registry_fields_reversed(Tail(fields), registry))

\* for name_type in record.fields.iter() { update_registry(&name_type.typ, registry) }
update_registry_fields(fields, registry) ==
    IF fields = << >> THEN registry
    ELSE update_registry_fields(Tail(fields),
            update_registry(Head(fields).typ, registry))

\* mutant: a result with both ok and err is walked like one with ok alone
update_registry_ok_only(ty, registry) ==
    CASE ty.kind = "Variant" -> insert_variant_cases(ty, ty.cases, registry)
      [] ty.kind = "Enum" -> insert_enum_cases(ty, ty.cases, registry)
      [] ty.kind = "Tuple" -> update_registry_each(ty.items, registry)
      [] ty.kind = "List" -> update_registry(ty.inner, registry)
      [] ty.kind = "Record" -> update_registry_fields(ty.fields, registry)
      [] ty.kind = "Result" /\ ~IsSome(ty.ok) /\ IsSome(ty.err) ->
            update_registry(Unwrap(ty.err), registry)
      [] ty.kind = "Result" /\ IsSome(ty.ok) ->
            update_registry(Unwrap(ty.ok), registry)
      [] ty.kind = "Option" -> update_registry(ty.inner, registry)
      [] ty.kind = "Result" /\ ~IsSome(ty.ok) /\ ~IsSome(ty.err) -> registry
      [] ty.kind \in LeafKinds -> registry

\* mutant: the names of a flags type are registered like the cases of an enum
update_registry_flags(ty, registry) ==
    CASE ty.kind = "Variant" -> insert_variant_cases(ty, ty.cases, registry)
      [] ty.kind = "Enum" -> insert_enum_cases(ty, ty.cases, registry)
      [] ty.kind = "Flags" -> insert_enum_cases(ty, ty.names, registry)
      [] ty.kind = "Tuple" -> update_registry_each(ty.items, registry)
      [] ty.kind = "List" -> update_registry(ty.inner, registry)
      [] ty.kind = "Record" -> update_registry_fields(ty.fields, registry)
      [] ty.kind = "Result" ->
            LET after_ok == IF IsSome(ty.ok)
                            THEN update_registry(Unwrap(ty.ok), registry)
                            ELSE registry
            IN IF IsSome(ty.err)
               THEN update_registry(Unwrap(ty.err), after_ok)
               ELSE after_ok
      [] ty.kind = "Option" -> update_registry(ty.inner, registry)
      [] ty.kind \in LeafKinds \ { "Flags" } -> registry

update_registry(ty, registry) ==
    CASE ty.kind = "Variant" -> insert_variant_cases(ty, ty.cases, registry)
      [] ty.kind = "Enum" -> insert_enum_cases(ty, ty.cases, registry)
      [] ty.kind = "Tuple" -> update_registry_each(ty.items, registry)
      [] ty.kind = "List" -> update_registry(ty.inner, registry)
      [] ty.kind = "Record" -> update_registry_fields(ty.fields, registry)
      [] ty.kind = "Result" /\ IsSome(ty.ok) /\ IsSome(ty.err) ->
            update_registry(Unwrap(ty.err), update_registry(Unwrap(ty.ok), registry))
      [] ty.kind = "Result" /\ ~IsSome(ty.ok) /\ IsSome(ty.err) ->
            update_registry(Unwrap(ty.err), registry)
      [] ty.kind = "Result" /\ IsSome(ty.ok) /\ ~IsSome(ty.err) ->
            update_registry(Unwrap(ty.ok), registry)
      [] ty.kind = "Option" -> update_registry(ty.inner, registry)
      [] ty.kind = "Result" /\ ~IsSome(ty.ok) /\ ~IsSome(ty.err) -> registry
      [] ty.kind \in LeafKinds -> registry

\* ------------------------------------------------------------------ get

\* ParsedFunctionSite: Global, or an interface site carrying its name
ParsedFunctionSite_Global == [site |-> "Global"]

ParsedFunctionSite_Interface(name) == [site |-> "Interface", name |-> name]

\* ParsedFunctionSite::interface_name()
interface_name(site) ==
    IF site.site = "Global" THEN None ELSE Some(site.name)

\* ParsedFunctionName { site, function }
ParsedFunctionName(site, function) == [site |-> site, function |-> function]

\* ParsedFunctionName::function_name()
function_name(parsed_fn_name) == parsed_fn_name.function

CallType_Function(parsed_fn_name) == [call |-> "Function", fn |-> parsed_fn_name]

CallType_VariantConstructor(variant_name) ==
    [call |-> "VariantConstructor", name |-> variant_name]

CallType_EnumConstructor(enum_name) ==
    [call |-> "EnumConstructor", name |-> enum_name]

\* mutant: the site of the function is ignored
from_function_name_bare(site, fname) == RegistryKey_FunctionName(fname)

from_function_name(site, fname) ==
    IF interface_name(site) = None
    THEN RegistryKey_FunctionName(fname)
    ELSE RegistryKey_FunctionNameWithInterface(Unwrap(interface_name(site)), fname)

from_call_type(call_type) ==
    CASE call_type.call = "VariantConstructor" ->
            RegistryKey_FunctionName(call_type.name)
      [] call_type.call = "EnumConstructor" ->
            RegistryKey_FunctionName(call_type.name)
      [] call_type.call = "Function" ->
            IF interface_name(call_type.fn.site) = None
            THEN RegistryKey_FunctionName(function_name(call_type.fn))
            ELSE RegistryKey_FunctionNameWithInterface(
                    Unwrap(interface_name(call_type.fn.site)),
                    function_name(call_type.fn))

\* self.types.get(&key): Option<&RegistryValue>
types_get(self, key) ==
    IF key \in DOMAIN self THEN Some(self[key]) ELSE None

\* mutant: an entry is returned only if its kind is the kind of the reference
get_checked(self, key) ==
    LET found == types_get(self, from_call_type(key))
    IN IF found = None THEN None
       ELSE IF \/ key.call = "Function" /\ Unwrap(found).tag = "Function"
               \/ key.call = "VariantConstructor"
                    /\ (Unwrap(found).tag = "Variant"
                        \/ (Unwrap(found).tag = "Value" /\ Unwrap(found).typ.kind = "Variant"))
               \/ key.call = "EnumConstructor"
                    /\ Unwrap(found).tag = "Value" /\ Unwrap(found).typ.kind = "Enum"
            THEN found
            ELSE None

get(self, key) ==
    CASE key.call = "Function" ->
            types_get(self, from_function_name(key.fn.site, function_name(key.fn)))
      [] key.call = "VariantConstructor" ->
            types_get(self, RegistryKey_FunctionName(key.name))
      [] key.call = "EnumConstructor" ->
            types_get(self, RegistryKey_FunctionName(key.name))

\* --------------------------------------------------------- get_variants

RECURSIVE Orders(_)
\* the orders in which HashMap::values() / HashSet::into_iter() may yield a set
Orders(S) ==
    IF S = {} THEN { << >> }
    ELSE UNION { { << x >> \o rest : rest \in Orders(S \ {x}) } : x \in S }

RECURSIVE push_variants_dedup(_, _, _)
\* mutant: a variant type already pushed is not pushed again
push_variants_dedup(self, order, variants) ==
    IF order = << >> THEN variants
    ELSE LET registry_value == self[Head(order)]
         IN push_variants_dedup(self, Tail(order),
                IF /\ registry_value.tag = "Variant"
                   /\ registry_value.variant_type \notin Range(variants)
                THEN Append(variants, registry_value.variant_type)
                ELSE variants)

RECURSIVE push_variants_values(_, _, _)
\* mutant: the variant type a Value entry holds is pushed as well
push_variants_values(self, order, variants) ==
    IF order = << >> THEN variants
    ELSE LET registry_value == self[Head(order)]
         IN push_variants_values(self, Tail(order),
                IF registry_value.tag = "Variant"
                THEN Append(variants, registry_value.variant_type)
                ELSE IF registry_value.tag = "Value"
                        /\ registry_value.typ.kind = "Variant"
                     THEN Append(variants, TypeVariant(registry_value.typ.cases))
                     ELSE variants)

RECURSIVE push_variants(_, _, _)
\* for registry_value in self.types.values() { if let Variant {..} => push }
push_variants(self, order, variants) ==
    IF order = << >> THEN variants
    ELSE LET registry_value == self[Head(order)]
         IN push_variants(self, Tail(order),
                IF registry_value.tag = "Variant"
                THEN Append(variants, registry_value.variant_type)
                ELSE variants)

\* order: the order in which this HashMap yields its entries
get_variants(self, order) == push_variants(self, order, << >>)

\* ------------------------------------------------------ export metadata

\* AnalysedFunctionParameter { name, typ }
AnalysedFunctionParameter(name, typ) == [name |-> name, typ |-> typ]

\* AnalysedFunctionResult { name: Option<String>, typ }
AnalysedFunctionResult(typ) == [name |-> None, typ |-> typ]

\* AnalysedFunction { name, parameters, results }
AnalysedFunction(name, parameters, results) ==
    [name |-> name, parameters |-> parameters, results |-> results]

AnalysedExport_Function(fun) == [export |-> "Function", fun |-> fun]

\* AnalysedExport::Instance(AnalysedInstance { name, functions })
AnalysedExport_Instance(name, functions) ==
    [export |-> "Instance", name |-> name, functions |-> functions]

\* ---- the structural types the exports below are written with

\* variant { a(s32), b }
VariantA ==
    AnalysedType_Variant(TypeVariant(
        << NameOptionTypePair("a", Some(AnalysedType_S32)),
           NameOptionTypePair("b", None) >>))

\* variant { a(string) }: its case a collides with VariantA's with another payload
VariantB ==
    AnalysedType_Variant(TypeVariant(
        << NameOptionTypePair("a", Some(AnalysedType_Str)) >>))

\* enum { b }
EnumB == AnalysedType_Enum(<< "b" >>)

\* enum { c, d }: shares no case name with any other type
EnumCD == AnalysedType_Enum(<< "c", "d" >>)

\* variant { e(enum { c, d }), d(s32) }: a sum type inside a payload, and two
\* cases that carry a payload
VariantPayload ==
    AnalysedType_Variant(TypeVariant(
        << NameOptionTypePair("e", Some(EnumCD)),
           NameOptionTypePair("d", Some(AnalysedType_S32)) >>))

\* record { x: list<option<variant { a(string) }>>,
\*          y: tuple<enum { b }, flags { g }, handle> }
Nested ==
    AnalysedType_Record(
        << NameTypePair("x", AnalysedType_List(AnalysedType_Option(VariantB))),
           NameTypePair("y", AnalysedType_Tuple(
                << EnumB, AnalysedType_Flags(<< "g" >>), AnalysedType_Handle >>)) >>)

ResultBoth == AnalysedType_Result(Some(VariantA), Some(VariantB))

ResultOk == AnalysedType_Result(Some(VariantB), None)

ResultErr == AnalysedType_Result(None, Some(EnumCD))

ResultNeither == AnalysedType_Result(None, None)

Signature(parameters, results) == [parameters |-> parameters, results |-> results]

\* add(p: s32, q: s32) -> s32
SigScalars ==
    Signature(<< AnalysedFunctionParameter("p", AnalysedType_S32),
                 AnalysedFunctionParameter("q", AnalysedType_S32) >>,
              << AnalysedFunctionResult(AnalysedType_S32) >>)

\* two top-level types that both declare the case b
SigVariantA ==
    Signature(<< AnalysedFunctionParameter("p", VariantA) >>,
              << AnalysedFunctionResult(EnumB) >>)

SigVariantB ==
    Signature(<< AnalysedFunctionParameter("p", VariantB) >>, << >>)

SigNested ==
    Signature(<< AnalysedFunctionParameter("p", Nested) >>,
              << AnalysedFunctionResult(ResultOk),
                 AnalysedFunctionResult(ResultErr) >>)

SigResults ==
    Signature(<< AnalysedFunctionParameter("p", ResultBoth),
                 AnalysedFunctionParameter("q", VariantPayload) >>,
              << AnalysedFunctionResult(ResultNeither) >>)

\* signatures of the functions exported at top level
Signatures == { SigScalars, SigVariantA, SigVariantB, SigNested, SigResults }

\* signatures of the functions exported inside an interface instance
InstanceSignatures == { SigScalars, SigVariantB }

\* function names: "a" is also a case name, "f" is not
FunctionNames == { "a", "f" }

InterfaceNames == { "i" }

Functions ==
    { AnalysedFunction(n, sig.parameters, sig.results) :
        n \in FunctionNames, sig \in Signatures }

InstanceFunctions ==
    { AnalysedFunction(n, sig.parameters, sig.results) :
        n \in FunctionNames, sig \in InstanceSignatures }

\* an instance groups zero, one or two functions
InstanceFunctionLists ==
    { << >> } \cup { << f >> : f \in InstanceFunctions }
              \cup { << f, g >> : f \in InstanceFunctions, g \in InstanceFunctions }

Exports ==
    { AnalysedExport_Function(f) : f \in Functions }
    \cup { AnalysedExport_Instance(i, fs) :
            i \in InterfaceNames, fs \in InstanceFunctionLists }

RECURSIVE SeqsUpTo(_, _)
\* the sequences over S of length at most n
SeqsUpTo(S, n) ==
    IF n = 0 THEN { << >> }
    ELSE LET shorter == SeqsUpTo(S, n - 1)
         IN shorter \cup { Append(s, x) : s \in shorter, x \in S }

\* ------------------------------------------------- from_export_metadata

VARIABLES
    exports,      \* the export metadata of the component
    pc,           \* "idle", or the loop from_export_metadata is in: "flat", "expand"
    next_export,  \* index of the export the flat pass handles next
    map,          \* the HashMap under construction
    types,        \* the HashSet of parameter and return types still to expand
    registry,     \* the FunctionTypeRegistry the caller holds
    built,        \* every registry from_export_metadata has returned for exports
    builds,       \* number of calls of from_export_metadata so far
    last,         \* the last query on registry and what it returned
    store,        \* the registries returned so far, each a value of its own
    readers       \* what each reader of a returned registry is doing

vars == << exports, pc, next_export, map, types, registry, built, builds, last,
           store, readers >>

ReaderIds == 1..NumReaders

\* a reader that holds no registry
NotReading == [phase |-> "out"]

NoQuery == [op |-> "none"]

Init ==
    /\ exports \in SeqsUpTo(Exports, MaxExports)
    /\ pc = "idle"
    /\ next_export = 1
    /\ map = empty
    /\ types = {}
    /\ registry = empty
    /\ built = {}
    /\ builds = 0
    /\ last = NoQuery
    /\ store = << >>
    /\ readers = [r \in ReaderIds |-> NotReading]

\* let mut map = HashMap::new(); let mut types = HashSet::new();
Start ==
    /\ pc = "idle"
    /\ builds < MaxBuilds
    /\ pc' = "flat"
    /\ next_export' = 1
    /\ map' = empty
    /\ types' = {}
    /\ builds' = builds + 1
    /\ last' = NoQuery
    /\ UNCHANGED << exports, registry, built, store, readers >>

\* the types a function's closures insert into the HashSet
function_types(fun) ==
    { fun.parameters[n].typ : n \in 1..Len(fun.parameters) }
    \cup { fun.results[n].typ : n \in 1..Len(fun.results) }

\* mutant: only the first parameter's type is collected
parameter_types_of_first(fun) ==
    IF fun.parameters = << >> THEN << >> ELSE << fun.parameters[1].typ >>

\* .map(|parameter| parameter.typ).collect::<Vec<_>>()
parameter_types_of(fun) ==
    [n \in 1..Len(fun.parameters) |-> fun.parameters[n].typ]

\* mutant: only the first result's type is collected
return_types_of_first(fun) ==
    IF fun.results = << >> THEN << >> ELSE << fun.results[1].typ >>

\* .map(|result| result.typ).collect::<Vec<_>>()
return_types_of(fun) ==
    [n \in 1..Len(fun.results) |-> fun.results[n].typ]

RECURSIVE insert_instance_functions_unqualified(_, _, _)
\* mutant: the functions of an instance are keyed by their bare name
insert_instance_functions_unqualified(interface, functions, m) ==
    IF functions = << >> THEN m
    ELSE LET fun == Head(functions)
         IN insert_instance_functions_unqualified(interface, Tail(functions),
                Insert(m,
                       RegistryKey_FunctionName(fun.name),
                       RegistryValue_Function(parameter_types_of(fun),
                                              return_types_of(fun))))

RECURSIVE insert_instance_functions_both(_, _, _)
\* mutant: the functions of an instance are also registered under their bare name
insert_instance_functions_both(interface, functions, m) ==
    IF functions = << >> THEN m
    ELSE LET fun == Head(functions)
             value == RegistryValue_Function(parameter_types_of(fun),
                                             return_types_of(fun))
         IN insert_instance_functions_both(interface, Tail(functions),
                Insert(Insert(m, RegistryKey_FunctionName(fun.name), value),
                       RegistryKey_FunctionNameWithInterface(interface, fun.name),
                       value))

RECURSIVE insert_instance_functions(_, _, _)
\* for fun in ty.functions.clone() { .. map.insert(registry_key, registry_value) }
insert_instance_functions(interface, functions, m) ==
    IF functions = << >> THEN m
    ELSE LET fun == Head(functions)
         IN insert_instance_functions(interface, Tail(functions),
                Insert(m,
                       RegistryKey_FunctionNameWithInterface(interface, fun.name),
                       RegistryValue_Function(parameter_types_of(fun),
                                              return_types_of(fun))))

\* one iteration of `for export in exports`, arm AnalysedExport::Instance
FlatInstance ==
    /\ pc = "flat"
    /\ next_export <= Len(exports)
    /\ exports[next_export].export = "Instance"
    /\ LET ty == exports[next_export]
       IN /\ map' = insert_instance_functions(ty.name, ty.functions, map)
          /\ types' = types \cup UNION { function_types(ty.functions[n]) :
                                            n \in 1..Len(ty.functions) }
    /\ next_export' = next_export + 1
    /\ UNCHANGED << exports, pc, registry, built, builds, last, store, readers >>

\* one iteration of `for export in exports`, arm AnalysedExport::Function
FlatFunction ==
    /\ pc = "flat"
    /\ next_export <= Len(exports)
    /\ exports[next_export].export = "Function"
    /\ LET fun == exports[next_export].fun
       IN /\ map' = Insert(map,
                           RegistryKey_FunctionName(fun.name),
                           RegistryValue_Function(parameter_types_of(fun),
                                                  return_types_of(fun)))
          /\ types' = types \cup function_types(fun)
    /\ next_export' = next_export + 1
    /\ UNCHANGED << exports, pc, registry, built, builds, last, store, readers >>

\* the export loop is exhausted; `for ty in types` begins
FlatDone ==
    /\ pc = "flat"
    /\ next_export > Len(exports)
    /\ pc' = "expand"
    /\ UNCHANGED << exports, next_export, map, types, registry, built, builds, last, store, readers >>

\* mutant: only the element the set yields first is expanded
Expand_first ==
    /\ pc = "expand"
    /\ \E ty \in types :
          /\ map' = update_registry(ty, map)
          /\ types' = {}
    /\ UNCHANGED << exports, pc, next_export, registry, built, builds, last, store, readers >>

\* mutant: the loop reads the set's elements without consuming the set
Expand_keep ==
    /\ pc = "expand"
    /\ \E ty \in types :
          /\ map' = update_registry(ty, map)
          /\ types' = types
    /\ UNCHANGED << exports, pc, next_export, registry, built, builds, last, store, readers >>

\* one iteration of `for ty in types`: the HashSet yields its elements in an
\* order the program does not control
Expand ==
    /\ pc = "expand"
    /\ \E ty \in types :
          /\ map' = update_registry(ty, map)
          /\ types' = types \ {ty}
    /\ UNCHANGED << exports, pc, next_export, registry, built, builds, last, store, readers >>

\* mutant: the call fills the registry returned before instead of a new one
Return_in_place ==
    /\ pc = "expand"
    /\ types = {}
    /\ registry' = map
    /\ built' = built \cup {map}
    /\ store' = [n \in 1..(Len(store) + 1) |-> map]
    /\ pc' = "idle"
    /\ UNCHANGED << exports, next_export, map, types, builds, last, readers >>

\* Self { types: map }
Return ==
    /\ pc = "expand"
    /\ types = {}
    /\ registry' = map
    /\ built' = built \cup {map}
    /\ store' = Append(store, map)
    /\ pc' = "idle"
    /\ UNCHANGED << exports, next_export, map, types, builds, last, readers >>

\* ------------------------------------------------------------- queries

RegistryKeys ==
    { RegistryKey_FunctionName(n) : n \in { "a", "b", "c", "f" } }
    \cup { RegistryKey_FunctionNameWithInterface(i, n) :
            i \in { "i", "j" }, n \in { "a", "f" } }

CallTypes ==
    { CallType_VariantConstructor(n) : n \in { "a", "f" } }
    \cup { CallType_EnumConstructor(n) : n \in { "b", "f" } }
    \cup { CallType_Function(ParsedFunctionName(site, n)) :
            site \in { ParsedFunctionSite_Global,
                       ParsedFunctionSite_Interface("i") },
            n \in { "a", "f" } }

\* mutant: lookup takes the entry out of the map (HashMap::remove for get)
Lookup_remove ==
    /\ pc = "idle"
    /\ last = NoQuery
    /\ \E registry_key \in RegistryKeys :
          /\ last' = [op |-> "lookup", arg |-> registry_key,
                      result |-> lookup(registry, registry_key)]
          /\ registry' = [k \in DOMAIN registry \ { registry_key } |-> registry[k]]
    /\ UNCHANGED << exports, pc, next_export, map, types, built, builds, store, readers >>

Lookup ==
    /\ pc = "idle"
    /\ last = NoQuery
    /\ \E registry_key \in RegistryKeys :
          last' = [op |-> "lookup", arg |-> registry_key,
                   result |-> lookup(registry, registry_key)]
    /\ UNCHANGED << exports, pc, next_export, map, types, registry, built, builds, store, readers >>

Get ==
    /\ pc = "idle"
    /\ last = NoQuery
    /\ \E key \in CallTypes :
          last' = [op |-> "get", arg |-> key, result |-> get(registry, key)]
    /\ UNCHANGED << exports, pc, next_export, map, types, registry, built, builds, store, readers >>

GetVariants ==
    /\ pc = "idle"
    /\ last = NoQuery
    /\ \E order \in Orders(DOMAIN registry) :
          last' = [op |-> "get_variants", arg |-> None,
                   result |-> get_variants(registry, order)]
    /\ UNCHANGED << exports, pc, next_export, map, types, registry, built, builds, store, readers >>

\* argument_types() of the value a lookup resolved
ArgumentTypes ==
    /\ pc = "idle"
    /\ last = NoQuery
    /\ \E registry_key \in DOMAIN registry :
          last' = [op |-> "argument_types", arg |-> registry[registry_key],
                   result |-> argument_types(registry[registry_key])]
    /\ UNCHANGED << exports, pc, next_export, map, types, registry, built, builds, store, readers >>

\* the caller is done with the Option / Vec a query returned
Drop ==
    /\ pc = "idle"
    /\ last # NoQuery
    /\ last' = NoQuery
    /\ UNCHANGED << exports, pc, next_export, map, types, registry, built, builds, store, readers >>

Next ==
    \/ Start
    \/ FlatInstance
    \/ FlatFunction
    \/ FlatDone
    \/ Expand
    \/ Return
    \/ Lookup
    \/ Get
    \/ GetVariants
    \/ ArgumentTypes
    \/ Drop

Spec == Init /\ [][Next]_vars

\* one call of from_export_metadata: straight-line code the caller's thread
\* runs to its return once the call has started
Build == FlatInstance \/ FlatFunction \/ FlatDone \/ Expand \/ Return

FairSpec == Spec /\ WF_vars(Build)

\* ------------------------------------------------- readers of a registry

\* &self: the map of a registry after get_variants, get or lookup borrowed it
borrowed_clear(self) == empty

borrowed(self) == self

\* the export metadata the readers' registries are built from
ReaderExports ==
    { << AnalysedExport_Function(
             AnalysedFunction("f", SigVariantA.parameters, SigVariantA.results)) >>,
      << AnalysedExport_Instance("i",
             << AnalysedFunction("a", SigVariantB.parameters, SigVariantB.results) >>) >>,
      << AnalysedExport_Function(
             AnalysedFunction("f", SigResults.parameters, SigResults.results)) >> }

\* the queries a reader makes
ReaderRequests ==
    { [op |-> "lookup", arg |-> RegistryKey_FunctionName("b")],
      [op |-> "get", arg |-> CallType_VariantConstructor("a")],
      [op |-> "get_variants", arg |-> None] }

RECURSIVE OneOrder(_)
\* one of the orders in which a HashMap may yield the keys S
OneOrder(S) ==
    IF S = {} THEN << >>
    ELSE LET x == CHOOSE x \in S : TRUE
         IN << x >> \o OneOrder(S \ { x })

\* what a query returns when nothing else runs between its start and its end
Alone(self, request) ==
    CASE request.op = "lookup" -> lookup(self, request.arg)
      [] request.op = "get" -> get(self, request.arg)
      [] request.op = "get_variants" ->
            get_variants(self, OneOrder(DOMAIN self))

InitReaders ==
    /\ exports \in ReaderExports
    /\ pc = "idle"
    /\ next_export = 1
    /\ map = empty
    /\ types = {}
    /\ registry = empty
    /\ built = {}
    /\ builds = 0
    /\ last = NoQuery
    /\ store = << >>
    /\ readers = [r \in ReaderIds |-> NotReading]

\* the next call of from_export_metadata is given other export metadata
Reload ==
    /\ pc = "idle"
    /\ builds > 0
    /\ builds < MaxBuilds
    /\ exports' \in ReaderExports \ { exports }
    /\ built' = {}
    /\ UNCHANGED << pc, next_export, map, types, registry, builds, last, store, readers >>

\* a reader takes the reference to the registry returned last and starts a
\* query on it
ReaderBegin ==
    /\ store # << >>
    /\ \E r \in ReaderIds, request \in ReaderRequests :
          /\ readers[r].phase = "out"
          /\ readers' = [readers EXCEPT ![r] =
                [phase |-> "run", ref |-> Len(store), request |-> request,
                 todo |-> IF request.op = "get_variants"
                          THEN DOMAIN store[Len(store)] ELSE {},
                 variants |-> << >>,
                 alone |-> Alone(store[Len(store)], request)]]
    /\ UNCHANGED << exports, pc, next_export, map, types, registry, built, builds, last, store >>

\* the reader's lookup or get runs on the registry it holds
ReaderRead ==
    \E r \in ReaderIds :
       /\ readers[r].phase = "run"
       /\ readers[r].request.op \in { "lookup", "get" }
       /\ LET self == store[readers[r].ref]
              request == readers[r].request
          IN /\ readers' = [readers EXCEPT ![r] =
                   [phase |-> "done", ref |-> readers[r].ref, request |-> request,
                    alone |-> readers[r].alone,
                    result |-> IF request.op = "lookup"
                               THEN lookup(self, request.arg)
                               ELSE get(self, request.arg)]]
             /\ store' = [store EXCEPT ![readers[r].ref] = borrowed(self)]
       /\ UNCHANGED << exports, pc, next_export, map, types, registry, built, builds, last >>

\* one iteration of the loop of the reader's get_variants
ReaderIterate ==
    \E r \in ReaderIds :
       /\ readers[r].phase = "run"
       /\ readers[r].request.op = "get_variants"
       /\ \E k \in readers[r].todo :
             LET self == store[readers[r].ref]
             IN /\ readers' = [readers EXCEPT ![r] =
                      [readers[r] EXCEPT
                          !.todo = @ \ { k },
                          !.variants = IF k \in DOMAIN self
                                       THEN push_variants(self, << k >>, @)
                                       ELSE @]]
                /\ store' = [store EXCEPT ![readers[r].ref] = borrowed(self)]
       /\ UNCHANGED << exports, pc, next_export, map, types, registry, built, builds, last >>

\* the loop of the reader's get_variants is exhausted: it returns variants
ReaderReturn ==
    \E r \in ReaderIds :
       /\ readers[r].phase = "run"
       /\ readers[r].request.op = "get_variants"
       /\ readers[r].todo = {}
       /\ readers' = [readers EXCEPT ![r] =
             [phase |-> "done", ref |-> readers[r].ref,
              request |-> readers[r].request, alone |-> readers[r].alone,
              result |-> readers[r].variants]]
       /\ UNCHANGED << exports, pc, next_export, map, types, registry, built, builds, last, store >>

\* the reader lets go of the registry and of the result
ReaderEnd ==
    \E r \in ReaderIds :
       /\ readers[r].phase = "done"
       /\ readers' = [readers EXCEPT ![r] = NotReading]
       /\ UNCHANGED << exports, pc, next_export, map, types, registry, built, builds, last, store >>

NextReaders ==
    \/ Start
    \/ FlatInstance
    \/ FlatFunction
    \/ FlatDone
    \/ Expand
    \/ Return
    \/ Reload
    \/ ReaderBegin
    \/ ReaderRead
    \/ ReaderIterate
    \/ ReaderReturn
    \/ ReaderEnd

SpecReaders == InitReaders /\ [][NextReaders]_vars

\* ---- the export metadata of the worked example

\* variant { circle(f64), square(f64), none }
ShapeTypeVariant ==
    TypeVariant(<< NameOptionTypePair("circle", Some(AnalysedType_F64)),
                   NameOptionTypePair("square", Some(AnalysedType_F64)),
                   NameOptionTypePair("none", None) >>)

ShapeVariant == AnalysedType_Variant(ShapeTypeVariant)

\* what the example's return type `shape` may be: without a sum type, with
\* sum types of other case names, and with sum types that reuse a name
Shapes ==
    { AnalysedType_F64,
      AnalysedType_Record(<< NameTypePair("side", AnalysedType_F64) >>),
      EnumCD,
      ShapeVariant,
      AnalysedType_Enum(<< "none", "round" >>),
      AnalysedType_Variant(TypeVariant(
          << NameOptionTypePair("circle", None), NameOptionTypePair("square", None) >>)),
      AnalysedType_List(AnalysedType_Enum(<< "make_shape" >>)) }

\* interface calculator { add(a: s32, b: s32) -> s32 }
CalculatorExport ==
    AnalysedExport_Instance("calculator",
        << AnalysedFunction("add",
               << AnalysedFunctionParameter("a", AnalysedType_S32),
                  AnalysedFunctionParameter("b", AnalysedType_S32) >>,
               << AnalysedFunctionResult(AnalysedType_S32) >>) >>)

\* make_shape(kind: variant { circle(f64), square(f64), none }) -> shape
MakeShapeExport(shape) ==
    AnalysedExport_Function(
        AnalysedFunction("make_shape",
            << AnalysedFunctionParameter("kind", ShapeVariant) >>,
            << AnalysedFunctionResult(shape) >>))

ExampleExports ==
    UNION { { << CalculatorExport, MakeShapeExport(shape) >>,
              << MakeShapeExport(shape), CalculatorExport >> } : shape \in Shapes }

InitExample ==
    /\ exports \in ExampleExports
    /\ pc = "idle"
    /\ next_export = 1
    /\ map = empty
    /\ types = {}
    /\ registry = empty
    /\ built = {}
    /\ builds = 0
    /\ last = NoQuery
    /\ store = << >>
    /\ readers = [r \in ReaderIds |-> NotReading]

SpecExample == InitExample /\ [][Next]_vars

\* ------------------------------------------- update_registry on its own

\* variant { c, d }: no case carries a payload
VariantNone ==
    AnalysedType_Variant(TypeVariant(
        << NameOptionTypePair("c", None), NameOptionTypePair("d", None) >>))

\* variant { a(s32), a }: the case name a is declared twice
VariantDup ==
    AnalysedType_Variant(TypeVariant(
        << NameOptionTypePair("a", Some(AnalysedType_S32)),
           NameOptionTypePair("a", None) >>))

\* the types update_registry is called with
WalkTypes ==
    { VariantA, VariantB, VariantNone, VariantDup, VariantPayload, EnumB, EnumCD,
      ResultBoth, ResultOk, ResultErr, ResultNeither,
      AnalysedType_Result(Some(VariantB), Some(VariantA)),
      AnalysedType_Record(<< NameTypePair("x", VariantA), NameTypePair("y", VariantB) >>),
      AnalysedType_Record(<< NameTypePair("x", VariantB), NameTypePair("y", VariantA) >>),
      AnalysedType_Tuple(<< EnumB, VariantA >>),
      AnalysedType_Tuple(<< VariantA, EnumB >>),
      AnalysedType_List(AnalysedType_Option(VariantB)),
      AnalysedType_Flags(<< "a" >>), AnalysedType_Str }

\* the registries update_registry is called on first: the empty map and the
\* map of a flat pass
WalkMaps ==
    { empty,
      Insert(Insert(empty, RegistryKey_FunctionName("a"),
                    RegistryValue_Function(<< AnalysedType_S32 >>, << >>)),
             RegistryKey_FunctionNameWithInterface("i", "b"),
             RegistryValue_Function(<< >>, << AnalysedType_Str >>)) }

InitWalk ==
    /\ exports = << >>
    /\ pc = "walk"
    /\ next_export = 1
    /\ map \in WalkMaps
    /\ types = {}
    /\ registry = empty
    /\ built = {}
    /\ builds = 0
    /\ last = NoQuery
    /\ store = << >>
    /\ readers = [r \in ReaderIds |-> NotReading]

\* update_registry(&ty, &mut map)
UpdateRegistry ==
    /\ pc = "walk"
    /\ \E ty \in WalkTypes :
          /\ map' = update_registry(ty, map)
          /\ last' = [op |-> "update_registry", arg |-> ty, before |-> map]
    /\ UNCHANGED << exports, pc, next_export, types, registry, built, builds, store, readers >>

NextWalk == UpdateRegistry

SpecWalk == InitWalk /\ [][NextWalk]_vars

\* ============================================================ properties

\* from_export_metadata(exports) has returned and the caller holds its result
Built == pc = "idle" /\ builds > 0

\* ---- what the export metadata declares, read off the metadata itself

RECURSIVE DeclaredFunctions(_)
\* the exported functions in export order, each with the interface it is in
DeclaredFunctions(exps) ==
    IF exps = << >> THEN << >>
    ELSE LET e == Head(exps)
         IN (IF e.export = "Function"
             THEN << [interface |-> None, fun |-> e.fun] >>
             ELSE [n \in 1..Len(e.functions) |->
                      [interface |-> Some(e.name), fun |-> e.functions[n]]])
            \o DeclaredFunctions(Tail(exps))

DeclaredKey(d) ==
    IF IsSome(d.interface)
    THEN [tag |-> "FunctionNameWithInterface",
          interface_name |-> Unwrap(d.interface),
          function_name |-> d.fun.name]
    ELSE [tag |-> "FunctionName", name |-> d.fun.name]

DeclaredValue(d) ==
    [tag |-> "Function",
     parameter_types |-> [n \in 1..Len(d.fun.parameters) |-> d.fun.parameters[n].typ],
     return_types |-> [n \in 1..Len(d.fun.results) |-> d.fun.results[n].typ]]

\* the parameter and return types of the exported functions
DeclaredTypes(exps) ==
    LET ds == DeclaredFunctions(exps)
    IN UNION { { ds[n].fun.parameters[m].typ : m \in 1..Len(ds[n].fun.parameters) }
               \cup { ds[n].fun.results[m].typ : m \in 1..Len(ds[n].fun.results) } :
               n \in 1..Len(ds) }

RECURSIVE NestedSums(_)
\* the variant and enum types nested at any depth inside records, tuples, lists,
\* options and results of ty (ty itself when it is one); payloads are not entered
NestedSums(ty) ==
    CASE ty.kind \in { "Variant", "Enum" } -> { ty }
      [] ty.kind = "Tuple" -> UNION { NestedSums(ty.items[n]) : n \in 1..Len(ty.items) }
      [] ty.kind = "Record" ->
            UNION { NestedSums(ty.fields[n].typ) : n \in 1..Len(ty.fields) }
      [] ty.kind \in { "List", "Option" } -> NestedSums(ty.inner)
      [] ty.kind = "Result" ->
            (IF IsSome(ty.ok) THEN NestedSums(Unwrap(ty.ok)) ELSE {})
            \cup (IF IsSome(ty.err) THEN NestedSums(Unwrap(ty.err)) ELSE {})
      [] OTHER -> {}

ReachableSums(exps) == UNION { NestedSums(ty) : ty \in DeclaredTypes(exps) }

\* the cases of a sum type: name and optional payload (an enum case has none)
CasesOf(sum) ==
    IF sum.kind = "Variant"
    THEN { sum.cases[n] : n \in 1..Len(sum.cases) }
    ELSE { [name |-> sum.cases[n], typ |-> None] : n \in 1..Len(sum.cases) }

ReachableCaseNames(exps) ==
    { c.name : c \in UNION { CasesOf(s) : s \in ReachableSums(exps) } }

\* the entry a case produces on its own
CaseEntry(sum, c) ==
    IF IsSome(c.typ)
    THEN [tag |-> "Variant", parameter_types |-> << Unwrap(c.typ) >>,
          variant_type |-> [cases |-> sum.cases]]
    ELSE [tag |-> "Value", typ |-> sum]

\* the entries the reachable cases named n produce on their own
CandidateEntries(exps, n) ==
    UNION { { CaseEntry(s, c) : c \in { x \in CasesOf(s) : x.name = n } } :
            s \in ReachableSums(exps) }

\* the payloads (None for none) the reachable cases named n are declared with
DeclaredPayloads(exps, n) ==
    UNION { { c.typ : c \in { x \in CasesOf(s) : x.name = n } } :
            s \in ReachableSums(exps) }

\* d is the last exported function, in export order, with its key
LastWithKey(ds, n) ==
    \A m \in (n + 1)..Len(ds) : DeclaredKey(ds[m]) # DeclaredKey(ds[n])

\* ---- C1

\* C1 as stated: after from_export_metadata(exports), every exported function
\* has an entry under its key (qualified iff it is in an interface instance),
\* and the entry is the Function value with that function's parameter and
\* return types.
C1_AsStated ==
    Built =>
        LET ds == DeclaredFunctions(exports)
        IN \A n \in 1..Len(ds) :
              /\ DeclaredKey(ds[n]) \in DOMAIN registry
              /\ registry[DeclaredKey(ds[n])] = DeclaredValue(ds[n])

\* C1, amended: after from_export_metadata(exports), every exported function
\* has an entry under its key (qualified iff it is in an interface instance).
\* When the key is FunctionName(n) for a reachable case name n, the entry is one
\* of the entries the reachable cases named n produce; otherwise it is the
\* Function value of the last exported function, in export order, with that key.
C1_FunctionEntries ==
    Built =>
        LET ds == DeclaredFunctions(exports)
        IN \A n \in 1..Len(ds) :
              LET key == DeclaredKey(ds[n])
              IN /\ key \in DOMAIN registry
                 /\ key.tag = "FunctionNameWithInterface" <=> IsSome(ds[n].interface)
                 /\ IF key.tag = "FunctionName"
                       /\ key.name \in ReachableCaseNames(exports)
                    THEN registry[key] \in CandidateEntries(exports, key.name)
                    ELSE LastWithKey(ds, n) => registry[key] = DeclaredValue(ds[n])

\* a built registry of exports holding a top-level function whose name a case
\* overwrites, an earlier function with the key of a later one, and a function
\* of an interface instance
C1_Witness ==
    /\ Built
    /\ LET ds == DeclaredFunctions(exports)
       IN /\ \E n \in 1..Len(ds) :
                /\ IsSome(ds[n].interface)
                /\ registry[DeclaredKey(ds[n])] = DeclaredValue(ds[n])
          /\ \E n \in 1..Len(ds) :
                /\ ~IsSome(ds[n].interface)
                /\ ds[n].fun.name \in ReachableCaseNames(exports)

\* ---- C2

AllInterfaceNames == { "i", "j" }

\* interface i declares a function named g
Declares(ds, i, g) ==
    \E n \in 1..Len(ds) : ds[n].interface = Some(i) /\ ds[n].fun.name = g

\* C2 as stated: an interface function resolves under its qualified key and,
\* when no unqualified exported function has its name, not under its bare
\* name; a top-level function resolves under its bare name and under no
\* qualified key of an interface that does not declare it.
C2_AsStated ==
    Built =>
        LET ds == DeclaredFunctions(exports)
        IN \A n \in 1..Len(ds) :
              LET f == ds[n].fun.name
              IN IF IsSome(ds[n].interface)
                 THEN /\ IsSome(lookup(registry,
                            RegistryKey_FunctionNameWithInterface(
                                Unwrap(ds[n].interface), f)))
                      /\ (~\E m \in 1..Len(ds) :
                              ~IsSome(ds[m].interface) /\ ds[m].fun.name = f)
                         => lookup(registry, RegistryKey_FunctionName(f)) = None
                 ELSE /\ IsSome(lookup(registry, RegistryKey_FunctionName(f)))
                      /\ \A i \in AllInterfaceNames :
                            ~Declares(ds, i, f)
                            => lookup(registry,
                                  RegistryKey_FunctionNameWithInterface(i, f)) = None

\* C2, amended: as C2, the bare name of an interface function being absent
\* when neither an unqualified exported function nor a reachable variant or
\* enum case has that name.
C2_Qualification ==
    Built =>
        LET ds == DeclaredFunctions(exports)
        IN \A n \in 1..Len(ds) :
              LET f == ds[n].fun.name
              IN IF IsSome(ds[n].interface)
                 THEN /\ IsSome(lookup(registry,
                            RegistryKey_FunctionNameWithInterface(
                                Unwrap(ds[n].interface), f)))
                      /\ ( /\ ~\E m \in 1..Len(ds) :
                                 ~IsSome(ds[m].interface) /\ ds[m].fun.name = f
                           /\ f \notin ReachableCaseNames(exports) )
                         => lookup(registry, RegistryKey_FunctionName(f)) = None
                 ELSE /\ IsSome(lookup(registry, RegistryKey_FunctionName(f)))
                      /\ \A i \in AllInterfaceNames :
                            ~Declares(ds, i, f)
                            => lookup(registry,
                                  RegistryKey_FunctionNameWithInterface(i, f)) = None

\* a built registry of an interface function whose bare name nothing else
\* declares, beside a top-level function the interface does not declare
C2_Witness ==
    /\ Built
    /\ LET ds == DeclaredFunctions(exports)
       IN /\ \E n \in 1..Len(ds) :
                /\ IsSome(ds[n].interface)
                /\ ds[n].fun.name \notin ReachableCaseNames(exports)
                /\ ~\E m \in 1..Len(ds) :
                       ~IsSome(ds[m].interface) /\ ds[m].fun.name = ds[n].fun.name
                /\ RegistryKey_FunctionName(ds[n].fun.name) \notin DOMAIN registry
          /\ \E n \in 1..Len(ds) :
                /\ ~IsSome(ds[n].interface)
                /\ ~Declares(ds, "i", ds[n].fun.name)
                /\ RegistryKey_FunctionName(ds[n].fun.name) \in DOMAIN registry

\* ---- C3

\* C3: after from_export_metadata, every case name of every variant or enum
\* type nested at any depth inside records, tuples, lists, options or results
\* of an exported parameter or return type has an entry under FunctionName.
C3_TransitiveDiscovery ==
    Built =>
        \A n \in ReachableCaseNames(exports) :
            IsSome(lookup(registry, RegistryKey_FunctionName(n)))

\* a built registry of exports whose record holds a variant inside a list of
\* options and an enum inside a tuple
C3_Witness ==
    /\ Built
    /\ Nested \in DeclaredTypes(exports)
    /\ VariantA \notin ReachableSums(exports)
    /\ RegistryKey_FunctionName("a") \in DOMAIN registry
    /\ RegistryKey_FunctionName("b") \in DOMAIN registry

\* ---- C4

\* C4 as stated: every reachable variant case declared with a payload resolves
\* to a Variant entry whose argument_types() is the one-element sequence of
\* that payload, and every reachable variant case declared without one
\* resolves to a Value entry whose argument_types() is empty.
C4_AsStated ==
    Built =>
        \A s \in { x \in ReachableSums(exports) : x.kind = "Variant" } :
            \A c \in CasesOf(s) :
                LET found == lookup(registry, RegistryKey_FunctionName(c.name))
                IN /\ IsSome(found)
                   /\ IF IsSome(c.typ)
                      THEN /\ Unwrap(found).tag = "Variant"
                           /\ argument_types(Unwrap(found)) = << Unwrap(c.typ) >>
                      ELSE /\ Unwrap(found).tag = "Value"
                           /\ argument_types(Unwrap(found)) = << >>

\* C4, amended: a reachable variant case resolves as C4 says when every
\* reachable variant or enum case of its name is declared with the same
\* payload, or every one without a payload.
C4_PayloadArity ==
    Built =>
        \A s \in { x \in ReachableSums(exports) : x.kind = "Variant" } :
            \A c \in CasesOf(s) :
                DeclaredPayloads(exports, c.name) = { c.typ }
                => LET found == lookup(registry, RegistryKey_FunctionName(c.name))
                   IN /\ IsSome(found)
                      /\ IF IsSome(c.typ)
                         THEN /\ Unwrap(found).tag = "Variant"
                              /\ argument_types(Unwrap(found)) = << Unwrap(c.typ) >>
                         ELSE /\ Unwrap(found).tag = "Value"
                              /\ argument_types(Unwrap(found)) = << >>

\* a built registry holding variant { a(s32), b } with no other reachable
\* case a, and its case b declared a second time, by enum { b }
C4_Witness ==
    /\ Built
    /\ VariantA \in ReachableSums(exports)
    /\ EnumB \in ReachableSums(exports)
    /\ DeclaredPayloads(exports, "a") = { Some(AnalysedType_S32) }
    /\ DeclaredPayloads(exports, "b") = { None }
    /\ registry[RegistryKey_FunctionName("a")].tag = "Variant"
    /\ registry[RegistryKey_FunctionName("b")].tag = "Value"

\* ---- C5

\* C5: two runs of from_export_metadata on the same export metadata return
\* registries with the same entries, whatever order the set of top-level types
\* is iterated in.
C5_Determinism == \A r1 \in built : \A r2 \in built : r1 = r2

\* ---- C6

\* C6: when two different reachable types declare a case of the same name with
\* different payloads, the built registry holds an entry under
\* FunctionName(that name), and the entry is the one that one of the candidate
\* cases produces on its own.
C6_CollisionKeepsOneCandidate ==
    Built =>
        \A n \in ReachableCaseNames(exports) :
            Cardinality(DeclaredPayloads(exports, n)) > 1
            => /\ RegistryKey_FunctionName(n) \in DOMAIN registry
               /\ registry[RegistryKey_FunctionName(n)] \in CandidateEntries(exports, n)

\* a built registry of exports where exactly two types declare a, variant
\* { a(s32), b } and variant { a(string) }, beside a top-level function a
C6_Witness ==
    /\ Built
    /\ DeclaredPayloads(exports, "a") = { Some(AnalysedType_S32), Some(AnalysedType_Str) }
    /\ Cardinality(CandidateEntries(exports, "a")) = 2
    /\ \E n \in 1..Len(exports) :
          exports[n].export = "Function" /\ exports[n].fun.name = "a"
    /\ registry[RegistryKey_FunctionName("a")].tag = "Variant"

\* ---- C7

\* the key C7 states for a call reference
StatedKey(c) ==
    IF c.call = "Function" /\ c.fn.site.site = "Interface"
    THEN [tag |-> "FunctionNameWithInterface",
          interface_name |-> c.fn.site.name,
          function_name |-> c.fn.function]
    ELSE IF c.call = "Function"
         THEN [tag |-> "FunctionName", name |-> c.fn.function]
         ELSE [tag |-> "FunctionName", name |-> c.name]

\* C7: for every registry and call reference c, get(c) is the entry stored
\* under the key the reference stands for (qualified for a function reference
\* with an interface site, bare otherwise and for constructor references), and
\* get(c) = lookup(RegistryKey::from_call_type(c)).
C7_GetIsLookupOfKey ==
    /\ \A c \in CallTypes :
          /\ get(registry, c) =
                (IF StatedKey(c) \in DOMAIN registry
                 THEN Some(registry[StatedKey(c)]) ELSE None)
          /\ get(registry, c) = lookup(registry, from_call_type(c))
    /\ last.op = "get" => last.result = lookup(registry, from_call_type(last.arg))

\* get has resolved a function reference with an interface site to its entry
\* while the bare name of that function holds another entry
C7_Witness ==
    /\ last.op = "get"
    /\ last.arg.call = "Function"
    /\ last.arg.fn.site = ParsedFunctionSite_Interface("i")
    /\ IsSome(last.result)
    /\ Unwrap(last.result).tag = "Function"
    /\ RegistryKey_FunctionName(last.arg.fn.function) \in DOMAIN registry
    /\ registry[RegistryKey_FunctionName(last.arg.fn.function)] # Unwrap(last.result)

\* ---- C8

\* the key/value entries of a registry
Entries(r) == { << k, r[k] >> : k \in DOMAIN r }

\* C8: lookup(k) is Some(v) exactly when the registry maps k to v, matching
\* the key variant and all its strings, and None when k is absent; lookup and
\* get report an unknown name as None and as nothing else.
C8_LookupExact ==
    /\ \A k \in RegistryKeys :
          /\ \A e \in Entries(registry) : e[1] = k => lookup(registry, k) = Some(e[2])
          /\ (\A e \in Entries(registry) : e[1] # k) => lookup(registry, k) = None
          /\ lookup(registry, k) \in { None } \cup { Some(e[2]) : e \in Entries(registry) }
    /\ \A c \in CallTypes :
          get(registry, c) \in { None } \cup { Some(e[2]) : e \in Entries(registry) }
    /\ last.op = "lookup" =>
          last.result = (IF last.arg \in DOMAIN registry
                         THEN Some(registry[last.arg]) ELSE None)

\* lookup has answered None for a key whose function name the registry holds
\* under another interface and under the bare name
C8_Witness ==
    /\ last.op = "lookup"
    /\ last.arg = RegistryKey_FunctionNameWithInterface("j", "a")
    /\ last.result = None
    /\ RegistryKey_FunctionNameWithInterface("i", "a") \in DOMAIN registry
    /\ RegistryKey_FunctionName("a") \in DOMAIN registry

\* ---- C9

VariantKeys(r) == { k \in DOMAIN r : r[k].tag = "Variant" }

\* C9: get_variants() has one element per Variant entry: every variant type a
\* Variant entry holds is in the output, every element of the output is the
\* variant_type of a Variant entry, and a variant type held by k Variant
\* entries is in the output k times.
C9_GetVariants ==
    last.op = "get_variants" =>
        LET out == last.result
        IN /\ Len(out) = Cardinality(VariantKeys(registry))
           /\ \A k \in VariantKeys(registry) : registry[k].variant_type \in Range(out)
           /\ \A n \in 1..Len(out) :
                 \E k \in VariantKeys(registry) : out[n] = registry[k].variant_type
           /\ \A v \in Range(out) :
                 Cardinality({ n \in 1..Len(out) : out[n] = v })
                 = Cardinality({ k \in VariantKeys(registry) :
                                    registry[k].variant_type = v })

\* get_variants has returned a variant type twice, for its two payload cases,
\* beside another variant type
C9_Witness ==
    /\ last.op = "get_variants"
    /\ \E v \in Range(last.result) :
          Cardinality({ n \in 1..Len(last.result) : last.result[n] = v }) > 1
    /\ Cardinality(Range(last.result)) > 1

\* ---- C10

\* C10: argument_types() is the parameter_types sequence, unchanged, of a
\* Function entry and of a Variant entry, and the empty sequence for a Value
\* entry; entries that differ only in return_types or in the owning variant
\* type have the same argument_types().
C10_ArgumentTypes ==
    /\ \A k \in DOMAIN registry :
          LET v == registry[k]
          IN /\ v.tag \in { "Function", "Variant" } =>
                  argument_types(v) = v.parameter_types
             /\ v.tag = "Value" => argument_types(v) = << >>
             /\ v.tag = "Function" =>
                  \A r \in { << >>, v.parameter_types, << AnalysedType_S32 >> } :
                     argument_types([v EXCEPT !.return_types = r]) = v.parameter_types
             /\ v.tag = "Variant" =>
                  \A t \in { VariantA, VariantB } :
                     argument_types([v EXCEPT !.variant_type = TypeVariant(t.cases)])
                     = v.parameter_types
    /\ last.op = "argument_types" =>
          last.result = (IF last.arg.tag = "Value" THEN << >>
                         ELSE last.arg.parameter_types)

\* argument_types has answered for a Function entry with two different
\* parameter types and another list of return types
C10_Witness ==
    /\ last.op = "argument_types"
    /\ last.arg.tag = "Function"
    /\ last.arg.parameter_types = << ResultBoth, VariantPayload >>
    /\ last.arg.return_types = << ResultNeither >>
    /\ last.result = << ResultBoth, VariantPayload >>

\* ---- C11

\* the keys of the exported functions
FunctionKeys(exps) ==
    LET ds == DeclaredFunctions(exps)
    IN { DeclaredKey(ds[n]) : n \in 1..Len(ds) }

\* scalars, strings, flags and handles, bare and wrapped in records, tuples,
\* lists, options and results
SumFreeTypes ==
    { AnalysedType_S32, AnalysedType_Str, AnalysedType_Handle,
      AnalysedType_Flags(<< "a", "g" >>),
      ResultNeither,
      AnalysedType_Result(Some(AnalysedType_Flags(<< "a" >>)), Some(AnalysedType_Handle)),
      AnalysedType_Record(
          << NameTypePair("a", AnalysedType_List(AnalysedType_Option(AnalysedType_F64))),
             NameTypePair("g", AnalysedType_Tuple(
                  << AnalysedType_Flags(<< "g" >>), AnalysedType_Handle >>)) >>) }

\* C11: every key of a built registry is the key of an exported function or
\* FunctionName(n) for a case name n of a reachable variant or enum type; when
\* the exported types hold no variant and no enum, the keys are exactly the
\* keys of the exported functions, and expanding such a type adds no key.
C11_KeySet ==
    /\ Built =>
          /\ DOMAIN registry \subseteq
                FunctionKeys(exports)
                \cup { [tag |-> "FunctionName", name |-> n] :
                          n \in ReachableCaseNames(exports) }
          /\ ReachableSums(exports) = {} => DOMAIN registry = FunctionKeys(exports)
    /\ \A ty \in SumFreeTypes : update_registry(ty, map) = map

\* a built registry of exports that hold a flags type and a handle inside a
\* tuple inside a record, whose keys are function keys and case names only
C11_Witness ==
    /\ Built
    /\ Nested \in DeclaredTypes(exports)
    /\ ResultNeither \in DeclaredTypes(exports)
    /\ [tag |-> "FunctionName", name |-> "g"] \notin DOMAIN registry
    /\ [tag |-> "FunctionName", name |-> "b"] \in DOMAIN registry
    /\ FunctionKeys(exports) # {}

\* ---- C12

\* C12: in a built registry, and in the map at every point of the expansion
\* pass, the parameter_types of a Variant entry has length 0 or 1 and is never
\* empty; a reachable variant case without payload whose name no other
\* reachable case has is a Value entry holding the whole variant type.
C12_VariantArity ==
    /\ \A r \in { map, registry } :
          \A k \in DOMAIN r :
             r[k].tag = "Variant" =>
                /\ Len(r[k].parameter_types) \in { 0, 1 }
                /\ r[k].parameter_types # << >>
    /\ Built =>
          \A s \in { x \in ReachableSums(exports) : x.kind = "Variant" } :
             \A c \in { x \in CasesOf(s) : ~IsSome(x.typ) } :
                CandidateEntries(exports, c.name) = { CaseEntry(s, c) }
                => registry[[tag |-> "FunctionName", name |-> c.name]]
                     = [tag |-> "Value", typ |-> s]

\* a built registry where variant { a(s32), b } is the only type declaring b:
\* b is a Value entry holding it, a is a Variant entry with one parameter
C12_Witness ==
    /\ Built
    /\ ReachableSums(exports) = { VariantA, VariantB, VariantPayload }
    /\ registry[[tag |-> "FunctionName", name |-> "b"]] = [tag |-> "Value", typ |-> VariantA]
    /\ registry[[tag |-> "FunctionName", name |-> "a"]].tag = "Variant"
    /\ Len(registry[[tag |-> "FunctionName", name |-> "a"]].parameter_types) = 1

\* ---- C13

\* the qualified entries of a map are those of the functions declared in
\* interface instances, each the Function value of the last declaration
QualifiedAreFunctions(r, exps) ==
    LET ds == DeclaredFunctions(exps)
    IN \A k \in DOMAIN r :
          k.tag = "FunctionNameWithInterface" =>
             /\ r[k].tag = "Function"
             /\ \E n \in 1..Len(ds) :
                   /\ ds[n].interface = Some(k.interface_name)
                   /\ ds[n].fun.name = k.function_name
                   /\ LastWithKey(ds, n)
                   /\ r[k] = DeclaredValue(ds[n])

\* C13: no constructor is interface-qualified: every FunctionNameWithInterface
\* key of a built registry is that of a function declared in that interface
\* and maps to its Function value, through the whole expansion pass as well;
\* a case reachable through a function of interface I is registered under
\* FunctionName(case), and FunctionNameWithInterface{I, case} is a key only if
\* I declares a function of that name.
C13_ConstructorsUnqualified ==
    /\ pc = "expand" => QualifiedAreFunctions(map, exports)
    /\ Built =>
          /\ QualifiedAreFunctions(registry, exports)
          /\ \A n \in ReachableCaseNames(exports) :
                /\ [tag |-> "FunctionName", name |-> n] \in DOMAIN registry
                /\ \A i \in AllInterfaceNames :
                      [tag |-> "FunctionNameWithInterface",
                       interface_name |-> i, function_name |-> n] \in DOMAIN registry
                      => Declares(DeclaredFunctions(exports), i, n)

\* a built registry whose only sum type comes from function a of interface i
\* and has a case a: the qualified key holds the function, the bare key the case
C13_Witness ==
    /\ Built
    /\ exports = << AnalysedExport_Instance("i",
                        << AnalysedFunction("a", SigVariantB.parameters,
                                            SigVariantB.results) >>) >>
    /\ registry[[tag |-> "FunctionNameWithInterface",
                 interface_name |-> "i", function_name |-> "a"]].tag = "Function"
    /\ registry[[tag |-> "FunctionName", name |-> "a"]].tag = "Variant"

\* ---- C19

RECURSIVE PayloadSums(_)
\* the variant and enum types that occur, at any depth, inside the payload
\* types of the cases of the sum types nested in ty
PayloadSums(ty) ==
    UNION { UNION { NestedSums(Unwrap(c.typ)) \cup PayloadSums(Unwrap(c.typ)) :
                      c \in { x \in CasesOf(s) : IsSome(x.typ) } } :
            s \in NestedSums(ty) }

\* C19: the expansion of a variant does not descend into payloads: the case
\* names of a variant or enum type that occurs only inside a payload have no
\* entry, unless a reachable case or a top-level function has that name.
C19_NoPayloadDescent ==
    Built =>
        \A s \in UNION { PayloadSums(ty) : ty \in DeclaredTypes(exports) } :
            \A c \in CasesOf(s) :
                ( /\ c.name \notin ReachableCaseNames(exports)
                  /\ [tag |-> "FunctionName", name |-> c.name]
                        \notin FunctionKeys(exports) )
                => lookup(registry, RegistryKey_FunctionName(c.name)) = None

\* a built registry of variant { e(enum { c, d }), d(s32) } where nothing else
\* declares c: e and d are registered and c is not
C19_Witness ==
    /\ Built
    /\ VariantPayload \in ReachableSums(exports)
    /\ EnumCD \notin ReachableSums(exports)
    /\ [tag |-> "FunctionName", name |-> "e"] \in DOMAIN registry
    /\ [tag |-> "FunctionName", name |-> "d"] \in DOMAIN registry
    /\ [tag |-> "FunctionName", name |-> "c"] \notin DOMAIN registry

\* ---- C20

\* C20: the expansion pass runs after the whole flat pass, so when a reachable
\* case name is the name of a top-level exported function, FunctionName(name)
\* resolves to the Value or Variant entry of a reachable case and never to the
\* Function entry, whatever the export order.
C20_ConstructorWins ==
    /\ pc = "expand" =>
          /\ next_export > Len(exports)
          /\ FunctionKeys(exports) \subseteq DOMAIN map
    /\ Built =>
          \A n \in 1..Len(exports) :
             ( /\ exports[n].export = "Function"
               /\ exports[n].fun.name \in ReachableCaseNames(exports) )
             => LET found == lookup(registry,
                                    RegistryKey_FunctionName(exports[n].fun.name))
                IN /\ IsSome(found)
                   /\ Unwrap(found).tag \in { "Value", "Variant" }
                   /\ Unwrap(found) \in CandidateEntries(exports, exports[n].fun.name)

\* a built registry where the top-level function a is exported after the
\* function that brings the case a, and FunctionName(a) holds the case
C20_Witness ==
    /\ Built
    /\ Len(exports) = 2
    /\ exports[1].export = "Function" /\ exports[1].fun.name = "f"
    /\ VariantB \in function_types(exports[1].fun)
    /\ exports[2] = AnalysedExport_Function(
                        AnalysedFunction("a", SigScalars.parameters, SigScalars.results))
    /\ registry[[tag |-> "FunctionName", name |-> "a"]].tag = "Variant"

\* ---- C14

\* what the query recorded in last returns on the registry r
QueryResultOn(r) ==
    CASE last.op = "lookup" -> last.result = lookup(r, last.arg)
      [] last.op = "get" -> last.result = get(r, last.arg)
      [] last.op = "get_variants" ->
            \E order \in Orders(DOMAIN r) : last.result = get_variants(r, order)
      [] last.op = "argument_types" ->
            /\ \E k \in DOMAIN r : r[k] = last.arg
            /\ last.result = argument_types(last.arg)
      [] OTHER -> TRUE

\* C14: between two builds no step changes the registry the caller holds,
\* whatever queries are made and dropped, and the result of every query is
\* the one the query has on the registry as it was built (get_variants: in an
\* iteration order of its map), so that a repeated query returns the same.
C14_QueriesDoNotMutate ==
    /\ [][ (pc = "idle" /\ pc' = "idle") =>
              (registry' = registry /\ built' = built /\ registry' \in built' \cup { empty }) ]_vars
    /\ [](Built => (registry \in built /\ QueryResultOn(registry)))

\* a query on a built registry has found an entry
C14_Witness ==
    /\ Built
    /\ last.op = "lookup"
    /\ IsSome(last.result)
    /\ registry \in built
    /\ Cardinality(DOMAIN registry) > 2

\* ---- C17

\* C17: a call of from_export_metadata that has started returns: the flat
\* pass and the expansion pass come to an end for every export list, and the
\* caller then holds the map the call built.
C17_BuildTerminates ==
    /\ (pc # "idle") ~> (pc = "idle" /\ registry = map)
    /\ [](pc \in { "idle", "flat", "expand" })

\* a call has returned for exports that hold a result with neither ok nor err,
\* flags and a handle, nested in records, tuples, lists and options
C17_Witness ==
    /\ Built
    /\ registry = map
    /\ Nested \in DeclaredTypes(exports)
    /\ ResultNeither \in DeclaredTypes(exports)

\* ---- C18

\* the return type of make_shape in the example's exports
ShapeOf(exps) ==
    LET n == CHOOSE n \in 1..Len(exps) : exps[n].export = "Function"
    IN exps[n].fun.results[1].typ

ExampleKeys ==
    { [tag |-> "FunctionNameWithInterface",
       interface_name |-> "calculator", function_name |-> "add"] }
    \cup { [tag |-> "FunctionName", name |-> n] :
             n \in { "make_shape", "circle", "square", "none" } }

\* the entry the example states for a bare name
ExampleEntry(n, shape) ==
    CASE n = "make_shape" ->
            [tag |-> "Function", parameter_types |-> << ShapeVariant >>,
             return_types |-> << shape >>]
      [] n \in { "circle", "square" } ->
            [tag |-> "Variant", parameter_types |-> << AnalysedType_F64 >>,
             variant_type |-> ShapeTypeVariant]
      [] n = "none" -> [tag |-> "Value", typ |-> ShapeVariant]

\* the case names of the sum types nested in shape
ShapeCaseNames(shape) ==
    UNION { { c.name : c \in CasesOf(s) } : s \in NestedSums(shape) }

\* C18 as stated: the five entries of the worked example, whatever shape is,
\* and no other entry when shape holds no sum type.
C18_AsStated ==
    Built =>
        /\ lookup(registry, RegistryKey_FunctionNameWithInterface("calculator", "add"))
             = Some(RegistryValue_Function(<< AnalysedType_S32, AnalysedType_S32 >>,
                                           << AnalysedType_S32 >>))
        /\ \A n \in { "make_shape", "circle", "square", "none" } :
              lookup(registry, RegistryKey_FunctionName(n))
                = Some(ExampleEntry(n, ShapeOf(exports)))
        /\ NestedSums(ShapeOf(exports)) = {} => DOMAIN registry = ExampleKeys

\* C18: in the worked example (calculator, add) maps to
\* Function([s32, s32], [s32]); each of make_shape, circle, square and none maps
\* to the entry the example states unless a sum type nested in shape has a case
\* of that name, and then to the entry of one of the reachable cases of that
\* name; the keys are these five and the case names of the sum types in shape.
C18_WorkedExample ==
    Built =>
        LET shape == ShapeOf(exports)
        IN /\ lookup(registry, RegistryKey_FunctionNameWithInterface("calculator", "add"))
                = Some(RegistryValue_Function(<< AnalysedType_S32, AnalysedType_S32 >>,
                                              << AnalysedType_S32 >>))
           /\ \A n \in { "make_shape", "circle", "square", "none" } :
                 LET found == lookup(registry, RegistryKey_FunctionName(n))
                 IN IF n \in ShapeCaseNames(shape)
                    THEN /\ IsSome(found)
                         /\ Unwrap(found) \in CandidateEntries(exports, n)
                    ELSE found = Some(ExampleEntry(n, shape))
           /\ DOMAIN registry
                = ExampleKeys \cup { [tag |-> "FunctionName", name |-> n] :
                                        n \in ShapeCaseNames(shape) }

\* the example built with a shape without sum type: exactly the five entries
C18_Witness ==
    /\ Built
    /\ ShapeOf(exports) = AnalysedType_Record(<< NameTypePair("side", AnalysedType_F64) >>)
    /\ DOMAIN registry = ExampleKeys
    /\ registry[[tag |-> "FunctionName", name |-> "none"]]
         = [tag |-> "Value", typ |-> ShapeVariant]
    /\ registry[[tag |-> "FunctionName", name |-> "circle"]].parameter_types
         = << AnalysedType_F64 >>

\* ---- C15

\* two outputs of get_variants with the same elements, each as many times
SameUpToOrder(s, t) ==
    /\ Len(s) = Len(t)
    /\ \A v \in Range(s) \cup Range(t) :
          Cardinality({ n \in 1..Len(s) : s[n] = v })
          = Cardinality({ n \in 1..Len(t) : t[n] = v })

\* the reader's result is the one its query has when it runs alone
AsAlone(reader) ==
    IF reader.request.op = "get_variants"
    THEN SameUpToOrder(reader.result, reader.alone)
    ELSE reader.result = reader.alone

\* C15: readers share a returned registry without locking: whatever steps of
\* other readers and of a later build run between the start and the end of a
\* reader's lookup, get or get_variants, its result is the one the query has
\* when it runs alone on that registry, and two readers of one registry that
\* make the same query get the same result.
C15_ReadersAgree ==
    /\ \A r \in ReaderIds : readers[r].phase = "done" => AsAlone(readers[r])
    /\ \A r1, r2 \in ReaderIds :
          ( /\ readers[r1].phase = "done" /\ readers[r2].phase = "done"
            /\ readers[r1].ref = readers[r2].ref
            /\ readers[r1].request = readers[r2].request )
          => IF readers[r1].request.op = "get_variants"
             THEN SameUpToOrder(readers[r1].result, readers[r2].result)
             ELSE readers[r1].result = readers[r2].result

\* two readers of the same registry have finished: one a lookup that found an
\* entry, the other a get_variants that met three Variant entries
C15_Witness ==
    /\ readers[1].phase = "done" /\ readers[2].phase = "done"
    /\ readers[1].ref = readers[2].ref
    /\ readers[1].request.op = "lookup" /\ IsSome(readers[1].result)
    /\ readers[2].request.op = "get_variants" /\ Len(readers[2].result) = 3

\* ---- C16

\* C16: a further call of from_export_metadata, on the same or on other export
\* metadata, returns a new registry and changes none returned before: no step
\* changes a returned registry, and a reader that holds an older registry gets,
\* during and after the later build, the answer its query had at its start.
C16_RebuildIsNewSnapshot ==
    /\ [][ /\ Len(store') >= Len(store)
           /\ \A n \in 1..Len(store) : store'[n] = store[n] ]_vars
    /\ [](\A r \in ReaderIds :
            readers[r].phase # "out" =>
               /\ readers[r].alone = Alone(store[readers[r].ref], readers[r].request)
               /\ (readers[r].phase = "done" /\ (readers[r].ref < Len(store) \/ pc # "idle"))
                     => AsAlone(readers[r]))

\* a reader that started on the first registry has its answer after a second,
\* different registry was returned, and the answer is not the second's
C16_Witness ==
    /\ Len(store) = 2
    /\ store[1] # store[2]
    /\ \E r \in ReaderIds :
          /\ readers[r].phase = "done"
          /\ readers[r].ref = 1
          /\ AsAlone(readers[r])
          /\ readers[r].alone # Alone(store[2], readers[r].request)

\* ---- C22

\* update_registry has just run on the type last.arg and the map last.before
Walked == last.op = "update_registry"

\* the keys a sum type registers
CaseKeys(sum) == { [tag |-> "FunctionName", name |-> c.name] : c \in CasesOf(sum) }

\* the walk added the keys of sums and left every other entry as it was
OnlyCaseKeysWritten(sums) ==
    LET keys == UNION { CaseKeys(s) : s \in sums }
    IN /\ DOMAIN map = DOMAIN last.before \cup keys
       /\ \A k \in DOMAIN last.before \ keys : map[k] = last.before[k]

\* C22: update_registry on a variant type V alone registers, under
\* FunctionName(case), Variant { parameter_types: [P], variant_type: V with all
\* its cases } for a case with payload P and Value(V) for a case without
\* payload (a case name declared twice in V holds its last declaration), and
\* writes no other entry.
C22_VariantExpansion ==
    (Walked /\ last.arg.kind = "Variant") =>
        LET V == last.arg
        IN /\ OnlyCaseKeysWritten({ V })
           /\ \A n \in 1..Len(V.cases) :
                 (\A m \in (n + 1)..Len(V.cases) : V.cases[m].name # V.cases[n].name)
                 => map[[tag |-> "FunctionName", name |-> V.cases[n].name]]
                      = IF V.cases[n].typ # << >>
                        THEN [tag |-> "Variant",
                              parameter_types |-> << V.cases[n].typ[1] >>,
                              variant_type |-> [cases |-> V.cases]]
                        ELSE [tag |-> "Value", typ |-> V]

\* variant { a(s32), b } was expanded into a map that held a function a
C22_Witness ==
    /\ Walked
    /\ last.arg = VariantA
    /\ [tag |-> "FunctionName", name |-> "a"] \in DOMAIN last.before
    /\ last.before[[tag |-> "FunctionName", name |-> "a"]].tag = "Function"
    /\ map[[tag |-> "FunctionName", name |-> "a"]].variant_type.cases = VariantA.cases
    /\ map[[tag |-> "FunctionName", name |-> "b"]].tag = "Value"

\* ---- C23

\* C23: update_registry on an enum type E alone registers Value(E) under
\* FunctionName(case) for every case of E, never a Variant entry, with empty
\* argument_types(), and writes no other entry.
C23_EnumExpansion ==
    (Walked /\ last.arg.kind = "Enum") =>
        LET E == last.arg
        IN /\ OnlyCaseKeysWritten({ E })
           /\ \A n \in 1..Len(E.cases) :
                 LET entry == map[[tag |-> "FunctionName", name |-> E.cases[n]]]
                 IN /\ entry = [tag |-> "Value", typ |-> E]
                    /\ argument_types(entry) = << >>

\* enum { c, d } was expanded into a map where c and d held the entries of a
\* variant
C23_Witness ==
    /\ Walked
    /\ last.arg = EnumCD
    /\ [tag |-> "FunctionName", name |-> "d"] \in DOMAIN last.before
    /\ last.before[[tag |-> "FunctionName", name |-> "d"]].tag = "Variant"
    /\ map[[tag |-> "FunctionName", name |-> "c"]] = [tag |-> "Value", typ |-> EnumCD]
    /\ map[[tag |-> "FunctionName", name |-> "d"]] = [tag |-> "Value", typ |-> EnumCD]

\* ---- C24

\* the sum types inside the ok side and inside the err side of a result
SumsOfSide(side) == IF side = << >> THEN {} ELSE NestedSums(side[1])

\* C24: update_registry on Result { ok, err } registers the cases of the sum
\* types inside ok iff ok is present and those inside err iff err is present,
\* each key holding the entry of one of these cases, and writes nothing else;
\* with neither ok nor err the map is left as it was.
C24_ResultExpansion ==
    (Walked /\ last.arg.kind = "Result") =>
        LET R == last.arg
            sums == SumsOfSide(R.ok) \cup SumsOfSide(R.err)
        IN /\ OnlyCaseKeysWritten(sums)
           /\ \A s \in sums : \A c \in CasesOf(s) :
                 map[[tag |-> "FunctionName", name |-> c.name]]
                    \in UNION { { CaseEntry(t, x) : x \in { y \in CasesOf(t) : y.name = c.name } } :
                                t \in sums }
           /\ (R.ok = << >> /\ R.err = << >>) => map = last.before
           /\ (R.ok = << >> /\ R.err # << >>) =>
                 DOMAIN map = DOMAIN last.before \cup UNION { CaseKeys(s) : s \in NestedSums(R.err[1]) }
           /\ (R.ok # << >> /\ R.err = << >>) =>
                 DOMAIN map = DOMAIN last.before \cup UNION { CaseKeys(s) : s \in NestedSums(R.ok[1]) }

\* result<variant { a(s32), b }, variant { a(string) }> was expanded into a map
\* without b: both sides left their cases
C24_Witness ==
    /\ Walked
    /\ last.arg = ResultBoth
    /\ [tag |-> "FunctionName", name |-> "b"] \notin DOMAIN last.before
    /\ map[[tag |-> "FunctionName", name |-> "b"]] = [tag |-> "Value", typ |-> VariantA]
    /\ map[[tag |-> "FunctionName", name |-> "a"]].variant_type.cases = VariantB.cases

\* ---- C25

\* C25: update_registry is idempotent: run again on the same type right after a
\* first run, it leaves the map as the first run left it; and a type expanded
\* once more after another type gives the map that its last expansion alone
\* gives, so that expanding each distinct type once loses nothing.
C25_Idempotent ==
    Walked =>
        /\ update_registry(last.arg, map) = map
        /\ \A other \in WalkTypes :
              update_registry(last.arg, update_registry(other, map))
                = update_registry(last.arg, update_registry(other, last.before))

\* a type with two sum types of a common case name was expanded and changed
\* the map
C25_Witness ==
    /\ Walked
    /\ last.arg = AnalysedType_Record(<< NameTypePair("x", VariantB), NameTypePair("y", VariantA) >>)
    /\ map # last.before
    /\ map[[tag |-> "FunctionName", name |-> "a"]].variant_type.cases = VariantA.cases

\* ---- C27

RECURSIVE VisitOrder(_)
RECURSIVE VisitOrderEach(_)
\* the sum types inside ty in the order stated for the walk: record fields in
\* field order, tuple items in item order, ok before err
VisitOrder(ty) ==
    CASE ty.kind \in { "Variant", "Enum" } -> << ty >>
      [] ty.kind = "Tuple" -> VisitOrderEach(ty.items)
      [] ty.kind = "Record" ->
            VisitOrderEach([n \in 1..Len(ty.fields) |-> ty.fields[n].typ])
      [] ty.kind \in { "List", "Option" } -> VisitOrder(ty.inner)
      [] ty.kind = "Result" -> VisitOrderEach(ty.ok \o ty.err)
      [] OTHER -> << >>

VisitOrderEach(tys) ==
    IF tys = << >> THEN << >>
    ELSE VisitOrder(Head(tys)) \o VisitOrderEach(Tail(tys))

\* the cases of a sum type in declaration order
CaseSeq(sum) ==
    IF sum.kind = "Variant" THEN sum.cases
    ELSE [n \in 1..Len(sum.cases) |-> [name |-> sum.cases[n], typ |-> << >>]]

\* C27: inside one expanded type the last write wins, in walk order: a case
\* name holds the entry of the case of that name declared last in the sum type
\* visited last among those that declare it, record fields being visited in
\* field order, tuple items in item order, ok before err, and cases in
\* declaration order.
C27_WalkOrder ==
    Walked =>
        LET visited == VisitOrder(last.arg)
        IN \A i \in 1..Len(visited) :
              LET cases == CaseSeq(visited[i])
              IN \A n \in 1..Len(cases) :
                    ( /\ \A m \in (n + 1)..Len(cases) : cases[m].name # cases[n].name
                      /\ \A j \in (i + 1)..Len(visited) :
                            \A m \in 1..Len(CaseSeq(visited[j])) :
                               CaseSeq(visited[j])[m].name # cases[n].name )
                    => map[[tag |-> "FunctionName", name |-> cases[n].name]]
                         = CaseEntry(visited[i], cases[n])

\* record { x: variant { a(string) }, y: variant { a(s32), b } } was expanded:
\* a holds the case of field y
C27_Witness ==
    /\ Walked
    /\ last.arg = AnalysedType_Record(<< NameTypePair("x", VariantB), NameTypePair("y", VariantA) >>)
    /\ map[[tag |-> "FunctionName", name |-> "a"]]
         = [tag |-> "Variant", parameter_types |-> << AnalysedType_S32 >>,
            variant_type |-> [cases |-> VariantA.cases]]
    /\ [tag |-> "FunctionName", name |-> "a"] \in DOMAIN last.before

\* ---- C21

\* the functions the first k exports declare
DeclaredUpTo(exps, k) == DeclaredFunctions(SubSeq(exps, 1, k))

\* C21: a Function entry keeps the declared signature: through the flat pass
\* the map holds, under the key of every function of the exports processed so
\* far, the parameter types in declaration order (repeated types kept) and the
\* result types in order (none, one or several) of the last such function with
\* that key, and nothing else; in the built registry every Function entry is
\* the signature of the last exported function with its key.
C21_SignaturePreserved ==
    /\ pc = "flat" =>
          LET ds == DeclaredUpTo(exports, next_export - 1)
          IN /\ DOMAIN map = { DeclaredKey(ds[n]) : n \in 1..Len(ds) }
             /\ \A n \in 1..Len(ds) :
                   LastWithKey(ds, n) =>
                      LET entry == map[DeclaredKey(ds[n])]
                          fun == ds[n].fun
                      IN /\ entry.tag = "Function"
                         /\ Len(entry.parameter_types) = Len(fun.parameters)
                         /\ \A m \in 1..Len(fun.parameters) :
                               entry.parameter_types[m] = fun.parameters[m].typ
                         /\ Len(entry.return_types) = Len(fun.results)
                         /\ \A m \in 1..Len(fun.results) :
                               entry.return_types[m] = fun.results[m].typ
    /\ Built =>
          LET ds == DeclaredFunctions(exports)
          IN \A k \in DOMAIN registry :
                registry[k].tag = "Function" =>
                   \E n \in 1..Len(ds) :
                      /\ DeclaredKey(ds[n]) = k
                      /\ LastWithKey(ds, n)
                      /\ registry[k].parameter_types
                           = [m \in 1..Len(ds[n].fun.parameters) |-> ds[n].fun.parameters[m].typ]
                      /\ registry[k].return_types
                           = [m \in 1..Len(ds[n].fun.results) |-> ds[n].fun.results[m].typ]

\* a built registry with the entries of a function of two results, of one
\* without result, and of one that replaced an earlier export of its key
C21_Witness ==
    /\ Built
    /\ Len(exports) = 2
    /\ exports[1].export = "Function" /\ exports[2].export = "Function"
    /\ exports[1].fun.name = "f" /\ exports[2].fun.name = "f"
    /\ exports[1].fun.results = << >>
    /\ Len(exports[2].fun.results) = 2
    /\ Len(registry[[tag |-> "FunctionName", name |-> "f"]].return_types) = 2
    /\ registry[[tag |-> "FunctionName", name |-> "f"]].parameter_types = << Nested >>

\* ---- C26

\* the case names a parameter or return type registers
NamesOf(ty) == UNION { { c.name : c \in CasesOf(s) } : s \in NestedSums(ty) }

\* the case names that two different parameter or return types register
SharedNames(exps) ==
    UNION { UNION { NamesOf(t1) \cap NamesOf(t2) : t2 \in DeclaredTypes(exps) \ { t1 } } :
              t1 \in DeclaredTypes(exps) }

\* C26: when no case name is registered by two different parameter or return
\* types, every build of the same exports returns the same registry, whatever
\* the order in which the set of types is expanded; two builds have the same
\* keys and can differ only at FunctionName(n) for a name n that two different
\* parameter or return types register.
C26_OrderIndependence ==
    /\ SharedNames(exports) = {} => Cardinality(built) <= 1
    /\ \A r1, r2 \in built :
          /\ DOMAIN r1 = DOMAIN r2
          /\ \A k \in DOMAIN r1 :
                r1[k] # r2[k] => (k.tag = "FunctionName" /\ k.name \in SharedNames(exports))

\* two builds of exports with two parameter types that register different
\* names have returned the same registry
C26_Witness ==
    /\ Built
    /\ builds = 2
    /\ SharedNames(exports) = {}
    /\ Cardinality({ t \in DeclaredTypes(exports) : NestedSums(t) # {} }) >= 2
    /\ Cardinality(built) = 1

\* ---- C28

\* the entry stored under the bare name n is the entry of a case named n of
\* the sum type it holds
EntryMatchesName(entry, n) ==
    CASE entry.tag = "Variant" ->
            /\ Len(entry.parameter_types) = 1
            /\ \E i \in 1..Len(entry.variant_type.cases) :
                  /\ entry.variant_type.cases[i].name = n
                  /\ entry.variant_type.cases[i].typ = << entry.parameter_types[1] >>
      [] entry.tag = "Value" ->
            \/ /\ entry.typ.kind = "Enum"
               /\ \E i \in 1..Len(entry.typ.cases) : entry.typ.cases[i] = n
            \/ /\ entry.typ.kind = "Variant"
               /\ \E i \in 1..Len(entry.typ.cases) :
                     /\ entry.typ.cases[i].name = n
                     /\ entry.typ.cases[i].typ = << >>
      [] OTHER -> TRUE

\* C28: in the map at every step of a build and in every built registry, a
\* Variant entry at FunctionName(n) holds a variant type with a case n whose
\* payload is parameter_types[0], and a Value(t) entry at FunctionName(n) holds
\* an enum with the case n or a variant with a case n without payload, also
\* when an entry of the same name was overwritten; only bare names hold Value
\* and Variant entries.
C28_EntryKeyConsistency ==
    \A r \in { map, registry } :
       \A k \in DOMAIN r :
          IF k.tag = "FunctionName"
          THEN EntryMatchesName(r[k], k.name)
          ELSE r[k].tag = "Function"

\* a built registry where a(s32) of one variant was overwritten by a(string) of
\* another and b of a variant by b of an enum or the reverse
C28_Witness ==
    /\ Built
    /\ { VariantA, VariantB, EnumB } \subseteq ReachableSums(exports)
    /\ registry[[tag |-> "FunctionName", name |-> "a"]].parameter_types = << AnalysedType_Str >>
    /\ registry[[tag |-> "FunctionName", name |-> "b"]].tag = "Value"

\* ---- C29

\* the names the references of C29 are made of
ReferenceNames == { "a", "b", "c", "d", "e", "f" }

\* C29: get does not look at the kind of the reference: for a name n,
\* get(VariantConstructor(n)), get(EnumConstructor(n)) and get of the function
\* n without interface all return the entry under FunctionName(n), of whatever
\* kind it is, or None; every get the caller made returned just that.
C29_GetIgnoresKind ==
    /\ Built =>
          \A n \in ReferenceNames :
             LET entry == IF [tag |-> "FunctionName", name |-> n] \in DOMAIN registry
                          THEN << registry[[tag |-> "FunctionName", name |-> n]] >>
                          ELSE << >>
             IN /\ get(registry, CallType_VariantConstructor(n)) = entry
                /\ get(registry, CallType_EnumConstructor(n)) = entry
                /\ get(registry, CallType_Function(
                          ParsedFunctionName(ParsedFunctionSite_Global, n))) = entry
    /\ (last.op = "get" /\ last.arg.call # "Function") =>
          last.result = get(registry, CallType_Function(
                               ParsedFunctionName(ParsedFunctionSite_Global, last.arg.name)))

\* a variant constructor reference f has resolved to the Function entry of f,
\* in a registry where the function reference a resolves to a Variant entry
C29_Witness ==
    /\ Built
    /\ last.op = "get"
    /\ last.arg = CallType_VariantConstructor("f")
    /\ IsSome(last.result)
    /\ Unwrap(last.result).tag = "Function"
    /\ Unwrap(get(registry, CallType_Function(
                 ParsedFunctionName(ParsedFunctionSite_Global, "a")))).tag = "Variant"

\* ---- C30

\* the variant types that hold a Variant entry of r
OwningVariants(r) ==
    { r[k].variant_type : k \in { x \in DOMAIN r : r[x].tag = "Variant" } }

\* the entry of r under the bare name n, if any
EntryAt(r, n) ==
    IF [tag |-> "FunctionName", name |-> n] \in DOMAIN r
    THEN << r[[tag |-> "FunctionName", name |-> n]] >>
    ELSE << >>

\* C30: every element of get_variants() is the variant type of a Variant entry
\* the registry holds now; a reachable variant type none of whose cases carries
\* a payload, or whose cases with payload were all overwritten, is not in the
\* output, and no enum type is.
C30_OnlyOwningVariants ==
    last.op = "get_variants" =>
        /\ Range(last.result) = OwningVariants(registry)
        /\ Range(last.result)
              \subseteq { [cases |-> s.cases] :
                            s \in { x \in ReachableSums(exports) : x.kind = "Variant" } }
        /\ \A s \in { x \in ReachableSums(exports) : x.kind = "Variant" } :
              ( \/ \A c \in CasesOf(s) : c.typ = << >>
                \/ \A c \in { x \in CasesOf(s) : x.typ # << >> } :
                      EntryAt(registry, c.name) # << CaseEntry(s, c) >> )
              => [cases |-> s.cases] \notin Range(last.result)

\* get_variants has returned nothing for a registry of two reachable variant
\* types: one without payloads, whose cases overwrote both cases with payload
\* of the other
C30_Witness ==
    /\ last.op = "get_variants"
    /\ last.result = << >>
    /\ Built
    /\ ShapeVariant \in ReachableSums(exports)
    /\ EntryAt(registry, "circle") = << [tag |-> "Value", typ |-> ShapeOf(exports)] >>
    /\ EntryAt(registry, "square") = << [tag |-> "Value", typ |-> ShapeOf(exports)] >>
    /\ EntryAt(registry, "none") = << [tag |-> "Value", typ |-> ShapeVariant] >>

====
